---- MODULE Spec2Model ----
(***************************************************************************)
(* Model of step_verify.py: the rationale segmenter, the two verifier      *)
(* strategies, VerifiedQA.forward with its thread-pool fan-out, and the    *)
(* dspy backtrack handler that `chat` wraps around it.                     *)
(*                                                                         *)
(* Text is a sequence of one-character strings.  Scores are kept in tenths *)
(* (0.7 is 7) so that the threshold comparison stays exact.                *)
(***************************************************************************)
EXTENDS Integers, Sequences, FiniteSets, TLC

(***************************************************************************)
(* Bounds of the model.                                                    *)
(***************************************************************************)
\* Largest number of sentences the generation backend puts in a rationale.
MaxSentences == 3
\* longest text rationale_to_steps is applied to on its own
MaxLen == 6
\* how many times `chat` is invoked, one after the other
MaxRequests == 2
\* how far from the default threshold the classifier scores range, in tenths
ScoreSpread == 16


(***************************************************************************)
(* Program constants.                                                      *)
(***************************************************************************)
max_backtracks == 2
\* ThreadPoolExecutor(max_workers=20)
max_workers == 20

\* rationale_to_steps: default of max_spaces
max_spaces == 2

\* dspy.Assert(result=(len(steps) > 2))
MinStepsExclusive == 2

\* BertClassifierVerifier.threshold = 0.7, in tenths
threshold == 7

\* JudgeLmVerifier: score = step_rating * 0.2, in tenths
RatingScale == 2

(***************************************************************************)
(* StepAnnotation                                                          *)
(***************************************************************************)
ESSENTIAL_AND_VALID == "essential_valid"
UNNECESSARY == "unnecessary"
LOGICALLY_FALSE == "logically_false"
NOT_BACKED_BY_PRIOR_FACTS == "not_backed_by_prior_facts"
BAD_DEDUCTIVE_REASONING == "bad_deductive_reasoning"
DOES_NOT_SEEM_RIGHT == "does_not_seem_right"

StepAnnotation ==
    { ESSENTIAL_AND_VALID, UNNECESSARY, LOGICALLY_FALSE,
      NOT_BACKED_BY_PRIOR_FACTS, BAD_DEDUCTIVE_REASONING, DOES_NOT_SEEM_RIGHT }

\* VerificationStrategy tags of the two implemented verifiers
LLM_AS_A_JUDGE == "llm_as_a_judge"
BERT_CLASSIFIER == "bert_classifier"

(***************************************************************************)
(* Python values and ==.  A str-Enum member equals its value, a tuple      *)
(* never equals a string.                                                  *)
(***************************************************************************)
StrVal(s) == [kind |-> "str", items |-> s]
TupleVal(t) == [kind |-> "tuple", items |-> t]
PyEq(x, y) == x.kind = y.kind /\ x.items = y.items

(***************************************************************************)
(* rationale_to_steps                                                      *)
(***************************************************************************)
Lower == {"a", "b"}
Upper == {"A"}
Word == Lower \cup Upper
\* \s: the space and the tab stand for the whitespace characters
Space == {" ", "\t"}

\* the first lookbehind written (?<!\w\...) : its third character may be
\* any character, a whitespace included
IsSplitLooseLookbehind(r, p) ==
    /\ r[p] \in Space
    /\ p > 1
    /\ r[p - 1] \in {".", "?"}
    /\ ~ ( /\ p > 4
           /\ r[p - 4] \in Word
           /\ r[p - 3] = "." )
    /\ ~ ( /\ p > 3
           /\ r[p - 3] \in Upper
           /\ r[p - 2] \in Lower
           /\ r[p - 1] = "." )

\* (?<!\w\.\w.)(?<![A-Z][a-z]\.)(?<=\.|\?)\s  matching the character at p
IsSplit(r, p) ==
    /\ r[p] \in Space
    /\ p > 1
    /\ r[p - 1] \in {".", "?"}
    /\ ~ ( /\ p > 4
           /\ r[p - 4] \in Word
           /\ r[p - 3] = "."
           /\ r[p - 2] \in Word )
    /\ ~ ( /\ p > 3
           /\ r[p - 3] \in Upper
           /\ r[p - 2] \in Lower
           /\ r[p - 1] = "." )

\* re.split(pattern, rationale): the pieces between the matched characters
RECURSIVE SplitFrom(_, _, _)
SplitFrom(r, start, p) ==
    IF p > Len(r) THEN << SubSeq(r, start, Len(r)) >>
    ELSE IF IsSplit(r, p)
         THEN << SubSeq(r, start, p - 1) >> \o SplitFrom(r, p + 1, p + 1)
         ELSE SplitFrom(r, start, p + 1)

re_split(r) == SplitFrom(r, 1, 1)

\* sentence.count(" ")
CountSpaces(s) == Cardinality({ p \in 1..Len(s) : s[p] = " " })

\* str.split(): the maximal runs of characters other than whitespace
WordCount(s) ==
    Cardinality({ p \in 1..Len(s) :
                    s[p] \notin Space /\ (p = 1 \/ s[p - 1] \in Space) })

\* a sentence kept for its words: more than max_spaces of them
KeepSentenceByWords(sentence) == WordCount(sentence) > max_spaces

KeepSentence(sentence) == CountSpaces(sentence) >= max_spaces

rationale_to_steps(rationale) ==
    SelectSeq(re_split(rationale), KeepSentence)


(***************************************************************************)
(* What the external collaborators can return.                             *)
(***************************************************************************)
\* the k-th sentence of a generated rationale: "a a a.", "a a a a.", ...
RECURSIVE Words(_)
Words(n) == IF n = 1 THEN << "a" >> ELSE Words(n - 1) \o << " ", "a" >>

LongSentence(k) == Words(k + 2) \o << "." >>
ShortSentence == Words(2) \o << "." >>

RECURSIVE JoinSentences(_, _)
JoinSentences(n, short) ==
    IF n = 0 THEN << >>
    ELSE IF n = 1 THEN (IF short THEN ShortSentence ELSE LongSentence(1))
    ELSE JoinSentences(n - 1, short) \o << " " >> \o LongSentence(n)

\* answer.rationale as the generation backend may produce it: up to
\* MaxSentences sentences that each make a step, or three sentences of which
\* the first is too short to make one
Rationales ==
    { JoinSentences(n, FALSE) : n \in 0..MaxSentences }
        \cup { JoinSentences(MinStepsExclusive + 1, TRUE) }

\* logits[0][0].item() of the classification model, in tenths
ModelScores == { threshold, threshold + 1 }

\* judgement.step_annotation / judgement.step_rating of the judge backend;
\* step_annotation is declared `str`, so any string comes through
Judgements ==
    { [step_annotation |-> ESSENTIAL_AND_VALID, step_rating |-> 5],
      [step_annotation |-> "probably_fine", step_rating |-> 0] }

(***************************************************************************)
(* verify_step of the two strategies: the (annotation, score) pairs a call *)
(* can return.                                                             *)
(***************************************************************************)
\* a score equal to the threshold counted as passing
ThresholdingExclusive(score, t) ==
    IF score < t THEN DOES_NOT_SEEM_RIGHT ELSE ESSENTIAL_AND_VALID

\* DOES_NOT_SEEM_RIGHT if score <= self.threshold else ESSENTIAL_AND_VALID
Thresholding(score, t) ==
    IF score <= t THEN DOES_NOT_SEEM_RIGHT ELSE ESSENTIAL_AND_VALID

BertAnnotation(score) == Thresholding(score, threshold)

BertVerifyStep ==
    { << BertAnnotation(score), score >> : score \in ModelScores }

JudgeVerifyStep ==
    { << j.step_annotation, j.step_rating * RatingScale >> : j \in Judgements }

verify_step(verifier) ==
    IF verifier = BERT_CLASSIFIER THEN BertVerifyStep ELSE JudgeVerifyStep

(***************************************************************************)
(* The constraints of VerifiedQA.forward                                   *)
(***************************************************************************)
\* "at least 2 steps", as the Assert's message words it
HardConstraintAtLeast(s) == Len(s) >= MinStepsExclusive

\* dspy.Assert(result=(len(steps) > 2))
HardConstraint(s) == Len(s) > MinStepsExclusive

\* the annotation compared with the member's name instead of its value
StepSuggestionByName(annotation) ==
    PyEq(StrVal(annotation), StrVal("ESSENTIAL_AND_VALID"))

\* dspy.Suggest(result=annotation == StepAnnotation.ESSENTIAL_AND_VALID.value)
StepSuggestion(annotation) ==
    PyEq(StrVal(annotation), StrVal(ESSENTIAL_AND_VALID))

\* dspy.Suggest(result=(objective_annotation == StepAnnotation.ESSENTIAL_AND_VALID))
\* objective_annotation is the whole (annotation, score) tuple verify_step returned
FinalSuggestion(objective_annotation) ==
    PyEq(TupleVal(objective_annotation), StrVal(ESSENTIAL_AND_VALID))


(***************************************************************************)
(* State of one `chat` request.                                            *)
(***************************************************************************)
VARIABLES
    step_verifier,        \* strategy of self.step_verifier
    objective_verifier,   \* strategy of self.objective_verifier
    stack_by_thread,      \* dspy.settings: bypass_suggest in the copies the
                          \* pool-thread ids used so far hold
    pc,                   \* where the main thread is
    i,                    \* backtrack_handler: index of the current attempt
    current_error,        \* backtrack_handler: the first error it caught
    bypass_suggest,       \* dspy.settings.bypass_suggest of the main thread
    exc,                  \* exception travelling up the main thread
    exc_msg,              \* its msg
    current_error_msg,    \* backtrack_handler: msg of current_error
    error,                \* exception that left agent(message)
    error_msg,            \* its msg
    rationale,            \* answer.rationale
    steps,                \* rationale_to_steps(answer.rationale)
    fut,                  \* futures of executor.map, one per step
    nxt,                  \* next future whose result list(...) waits for
    chosen_steps,         \* results collected so far
    response,             \* whether self.conversational has returned
    objective_annotation, \* return value of objective_verifier.verify_step
    final_passed,         \* outcome of the final Suggest's result=, once evaluated
    result,               \* what agent(message) returned
    calls,                \* history: verify_step invocations per step, this round
    produced,             \* history: what verify_step returned per step
    fanouts,              \* history: rounds whose fan-out was started
    passSeen,             \* history: some verify_step returned EssentialAndValid
    assertSeen,           \* history: the Assert failed in some attempt
    backendRound,         \* history: attempt of the first backend exception
    formatRound,          \* history: attempt of the first out-of-set annotation
    understandings,       \* history: calls of self.message_understanding
    requests,             \* `chat` invocations so far, this one included
    exhausted_before,     \* an earlier invocation used up its backtracks
    input,                \* argument of the function applied on its own
    output,               \* what that function returned
    reapplied,            \* rationale_to_steps of each returned step
    cancel_next           \* future the iteration's clean-up cancels next, or 0

vars ==
    << step_verifier, objective_verifier, stack_by_thread, pc, i,
       current_error, current_error_msg, bypass_suggest, exc, exc_msg,
       error, error_msg,
       rationale, steps, fut, nxt, chosen_steps, response,
       objective_annotation, final_passed, result, calls, produced,
       fanouts, passSeen, assertSeen, backendRound, formatRound,
       understandings, requests, exhausted_before, input, output, reapplied,
       cancel_next >>

verifierVars == << step_verifier, objective_verifier >>
handlerVars == << i, current_error, current_error_msg, bypass_suggest >>
roundVars ==
    << rationale, steps, fut, nxt, chosen_steps, response,
       objective_annotation, final_passed, calls, produced >>
historyVars ==
    << fanouts, passSeen, assertSeen, backendRound, formatRound >>
requestVars == << requests, exhausted_before >>
pureVars == << input, output, reapplied >>

NONE == "none"
SuggestionError == "DSPySuggestionError"
AssertionError == "DSPyAssertionError"
BackendError == "Exception"

\* msg= of the Assert and of the two Suggests; an exception of an external
\* call carries none of them
AssertMsg ==
    "There should atleast be 2 steps in our rationale, or its probably not a good rationale."
StepMsg ==
    "Each step in the thought process must be necessary for reaching an answer and be logically and factually valid."
FinalMsg == "The answer must meet the user's objectives."
NoMsg == ""

NoFuture == [st |-> "pending", score |-> 0]

\* the futures executor.map has created, one per step
Indices == DOMAIN fut
\* work items still in the executor's queue
Pending == { k \in Indices : fut[k].st = "pending" }
\* work items a pool thread has taken off the queue but not yet marked running
Taken == { k \in Indices : fut[k].st = "taken" }
Running == { k \in Indices : fut[k].st = "running" }
\* work items a pool thread is occupied with
Busy == Taken \cup Running
Finished(k) == fut[k].st \in {"done", "raised_suggestion", "raised_backend"}

\* agent(message) is about to be called for the first time
RequestStart ==
    /\ pc = "handler"
    /\ i = 0
    /\ current_error = NONE
    /\ current_error_msg = NoMsg
    /\ bypass_suggest = FALSE
    /\ exc = NONE
    /\ exc_msg = NoMsg
    /\ error = NONE
    /\ error_msg = NoMsg
    /\ rationale = << >>
    /\ steps = << >>
    /\ fut = << >>
    /\ nxt = 1
    /\ chosen_steps = << >>
    /\ response = FALSE
    /\ objective_annotation = << >>
    /\ final_passed = NONE
    /\ result = << >>
    /\ calls = << >>
    /\ produced = << >>
    /\ fanouts = 0
    /\ passSeen = FALSE
    /\ assertSeen = FALSE
    /\ backendRound = -1
    /\ formatRound = -1
    /\ understandings = 0
    /\ requests = 1
    /\ exhausted_before = FALSE
    /\ input = << >>
    /\ output = << >>
    /\ reapplied = << >>
    /\ cancel_next = 0

\* VerifiedQA(step_verifier, objective_verifier): each of the two is one of
\* the implemented strategies (objective_verifier=None gives step_verifier);
\* no pool thread has run yet
Init ==
    /\ step_verifier \in {BERT_CLASSIFIER, LLM_AS_A_JUDGE}
    /\ objective_verifier \in {BERT_CLASSIFIER, LLM_AS_A_JUDGE}
    /\ stack_by_thread = {}
    /\ RequestStart

\* an external call raised: propagate, remembering the attempt it happened in
RaiseBackend ==
    /\ exc' = BackendError
    /\ exc_msg' = NoMsg
    /\ backendRound' = IF backendRound = -1 THEN i ELSE backendRound

(***************************************************************************)
(* backtrack_handler(func, bypass_suggest=True, max_backtracks=2), the     *)
(* dspy handler `chat` wraps around VerifiedQA with max_backtracks=2 and   *)
(* bypass_suggest left at its default:                                     *)
(*                                                                         *)
(*   for i in range(max_backtracks + 1):                                   *)
(*       if i == max_backtracks:                                           *)
(*           if current_error is a DSPyAssertionError: raise current_error *)
(*           result = bypass_suggest_handler(func)(...); break             *)
(*       else:                                                             *)
(*           try: result = func(...); break                                *)
(*           except (DSPySuggestionError, DSPyAssertionError) as e:        *)
(*               if not current_error: current_error = e                   *)
(*                                                                         *)
(* Every attempt calls forward from its first line.  dspy.Assert raises    *)
(* DSPyAssertionError when its result is False; dspy.Suggest raises        *)
(* DSPySuggestionError when its result is False, unless                    *)
(* dspy.settings.bypass_suggest is set, in which case it logs and returns. *)
(***************************************************************************)
\* the loop gives up one attempt early
LastAttemptEarly(n) == n = max_backtracks - 1

LastAttempt(n) == n = max_backtracks

\* a retry that resumes at the generation stage, keeping the understanding
ResumeAtGeneration == "task"

\* func(*args, **kwargs) is VerifiedQA.forward, entered at its first statement
FirstStage == "understand"

\* top of `for i in range(max_backtracks + 1)`
HandlerAttempt ==
    /\ pc = "handler"
    /\ IF LastAttempt(i)
       THEN IF current_error = AssertionError
            THEN /\ pc' = "failed"
                 /\ error' = current_error
                 /\ error_msg' = current_error_msg
                 /\ UNCHANGED bypass_suggest
            ELSE /\ pc' = FirstStage
                 /\ bypass_suggest' = TRUE
                 /\ UNCHANGED << error, error_msg >>
       ELSE /\ pc' = FirstStage
            /\ UNCHANGED << bypass_suggest, error, error_msg >>
    /\ rationale' = << >>
    /\ steps' = << >>
    /\ fut' = << >>
    /\ nxt' = 1
    /\ chosen_steps' = << >>
    /\ response' = FALSE
    /\ objective_annotation' = << >>
    /\ final_passed' = NONE
    /\ calls' = << >>
    /\ produced' = << >>
    /\ UNCHANGED << understandings, requestVars, pureVars, cancel_next >>
    /\ UNCHANGED << verifierVars, stack_by_thread, i, current_error,
                    current_error_msg, exc, exc_msg, result, historyVars >>

\* only suggestion errors are caught and retried
CaughtSuggestionOnly(e) == e = SuggestionError

\* only assertion errors are caught and retried
CaughtAssertionOnly(e) == e = AssertionError

\* except (DSPySuggestionError, DSPyAssertionError) as e
Caught(e) == e \in {SuggestionError, AssertionError}

\* an exception leaves func(*args, **kwargs); only the attempts before the
\* last run inside the try block
HandlerCatch ==
    /\ pc = "raised"
    /\ IF Caught(exc) /\ ~ LastAttempt(i)
       THEN /\ current_error' = IF current_error = NONE THEN exc ELSE current_error
            /\ current_error_msg' =
                  IF current_error = NONE THEN exc_msg ELSE current_error_msg
            /\ i' = i + 1
            /\ pc' = "handler"
            /\ UNCHANGED << error, error_msg >>
       ELSE /\ pc' = "failed"
            /\ error' = exc
            /\ error_msg' = exc_msg
            /\ UNCHANGED << i, current_error, current_error_msg >>
    /\ exc' = NONE
    /\ exc_msg' = NoMsg
    /\ UNCHANGED << understandings, requestVars, pureVars, cancel_next >>
    /\ UNCHANGED << verifierVars, stack_by_thread, bypass_suggest, roundVars,
                    result, historyVars >>

(***************************************************************************)
(* VerifiedQA.forward                                                      *)
(***************************************************************************)
\* structured_message = self.message_understanding(...)
Understand ==
    /\ pc = "understand"
    /\ understandings' = understandings + 1
    /\ \/ /\ pc' = "task"
          /\ UNCHANGED << exc, exc_msg, backendRound >>
       \/ /\ pc' = "raised"
          /\ RaiseBackend
    /\ UNCHANGED << requestVars, pureVars, cancel_next >>
    /\ UNCHANGED << verifierVars, stack_by_thread, i, current_error,
                    current_error_msg, bypass_suggest, error, error_msg,
                    rationale, steps, fut, nxt, chosen_steps, response,
                    objective_annotation, final_passed, result, calls,
                    produced, fanouts, passSeen, assertSeen, formatRound >>

\* answer = self.task(structured_message)
GenerateRationale ==
    /\ pc = "task"
    /\ \/ /\ \E r \in Rationales : rationale' = r
          /\ pc' = "segment"
          /\ UNCHANGED << exc, exc_msg, backendRound >>
       \/ /\ pc' = "raised"
          /\ RaiseBackend
          /\ UNCHANGED rationale
    /\ UNCHANGED << understandings, requestVars, pureVars, cancel_next >>
    /\ UNCHANGED << verifierVars, stack_by_thread, i, current_error,
                    current_error_msg, bypass_suggest, error, error_msg,
                    steps, fut, nxt, chosen_steps, response,
                    objective_annotation, final_passed, result, calls,
                    produced, fanouts, passSeen, assertSeen, formatRound >>

\* steps = rationale_to_steps(answer.rationale); dspy.Assert(len(steps) > 2)
SegmentAndAssert ==
    /\ pc = "segment"
    /\ steps' = rationale_to_steps(rationale)
    /\ IF HardConstraint(steps')
       THEN /\ pc' = "submit"
            /\ UNCHANGED << exc, exc_msg, assertSeen >>
       ELSE /\ pc' = "raised"
            /\ exc' = AssertionError
            /\ exc_msg' = AssertMsg
            /\ assertSeen' = TRUE
    /\ UNCHANGED << understandings, requestVars, pureVars, cancel_next >>
    /\ UNCHANGED << verifierVars, stack_by_thread, i, current_error,
                    current_error_msg, bypass_suggest, error, error_msg,
                    rationale, fut, nxt, chosen_steps, response,
                    objective_annotation, final_passed, result, calls,
                    produced, fanouts, passSeen, backendRound, formatRound >>

\* fs = [self.submit(fn, *args) for args in zip(*iterables)]: one submit per
\* step, in order; a submit puts the work item on the queue and returns, and
\* pool threads work while the later steps are still being submitted.  The
\* iteration over the results begins when the last submit has returned.
Submit ==
    /\ pc = "submit"
    /\ Len(fut) < Len(steps)
    /\ fut' = Append(fut, NoFuture)
    /\ calls' = Append(calls, 0)
    /\ produced' = Append(produced, << >>)
    /\ fanouts' = IF fut = << >> THEN fanouts + 1 ELSE fanouts
    /\ pc' = IF Len(fut) + 1 = Len(steps) THEN "map" ELSE "submit"
    /\ UNCHANGED << understandings, requestVars, pureVars, cancel_next >>
    /\ UNCHANGED << verifierVars, stack_by_thread, i, current_error,
                    current_error_msg, bypass_suggest, exc, exc_msg, error,
                    error_msg, rationale, steps, nxt, chosen_steps, response,
                    objective_annotation, final_passed, result, passSeen,
                    assertSeen, backendRound, formatRound >>

\* bypass_suggest as a pool thread reads it.  dspy.settings keeps one stack
\* per thread id (stack_by_thread), created when the thread first reads its
\* settings as a copy of the main thread's current settings, and never
\* removed.  A thread whose id is new gets the main thread's value; a thread
\* whose id was used before, by a thread of an earlier pool or by itself for
\* an earlier step, gets the value stored under that id.
ThreadBypassSuggest == {bypass_suggest} \cup stack_by_thread

\* JudgeLmVerifier.verify_step enters dspy.context(lm=self.lm) first, which
\* reads the thread's settings; BertClassifierVerifier.verify_step does not
\* touch them
EntersContext(verifier) == verifier = LLM_AS_A_JUDGE

\* the stages in which the executor of the round exists
PoolActive == {"submit", "map", "cancel", "shutdown"}

\* ThreadPoolExecutor(max_workers=...): a work item is taken off the queue
\* only by a pool thread, the pool never has more than max_workers threads
\* and a thread is occupied with one work item at a time
WorkerFree == Cardinality(Busy) < max_workers

\* work_item = work_queue.get(block=True): a pool thread takes the oldest
\* queued work item; the future stays PENDING and can still be cancelled
WorkerTake(k) ==
    /\ pc \in PoolActive
    /\ k \in Pending
    /\ \A j \in Pending : k <= j
    /\ WorkerFree
    /\ fut' = [fut EXCEPT ![k].st = "taken"]
    /\ UNCHANGED << understandings, requestVars, pureVars, cancel_next >>
    /\ UNCHANGED << verifierVars, stack_by_thread, pc, i, current_error,
                    current_error_msg, bypass_suggest, exc, exc_msg, error,
                    error_msg, rationale, steps, nxt, chosen_steps, response,
                    objective_annotation, final_passed, result, calls,
                    produced, fanouts, passSeen, assertSeen, backendRound,
                    formatRound >>

\* work_item.run(): set_running_or_notify_cancel() succeeded, process_step is
\* called
WorkerStart(k) ==
    /\ pc \in PoolActive
    /\ k \in Taken
    /\ fut' = [fut EXCEPT ![k].st = "running"]
    /\ calls' = [calls EXCEPT ![k] = @ + 1]
    /\ UNCHANGED << understandings, requestVars, pureVars, cancel_next >>
    /\ UNCHANGED << verifierVars, stack_by_thread, pc, i, current_error,
                    current_error_msg, bypass_suggest, exc, exc_msg, error,
                    error_msg, rationale, steps, nxt, chosen_steps, response,
                    objective_annotation, final_passed, result, produced,
                    fanouts, passSeen, assertSeen, backendRound,
                    formatRound >>

\* process_step(step): verify_step, then the per-step Suggest, which reads
\* bypass_suggest only when its result is False
WorkerFinish(k) ==
    /\ pc \in PoolActive
    /\ k \in Running
    /\ \E bypass \in ThreadBypassSuggest :
         LET entered == IF EntersContext(step_verifier)
                        THEN stack_by_thread \cup {bypass}
                        ELSE stack_by_thread
         IN
         \/ /\ fut' = [fut EXCEPT ![k].st = "raised_backend"]
            /\ backendRound' = IF backendRound = -1 THEN i ELSE backendRound
            /\ stack_by_thread' = entered
            /\ UNCHANGED << produced, passSeen, formatRound >>
         \/ \E v \in verify_step(step_verifier) :
              /\ produced' = [produced EXCEPT ![k] = v]
              /\ passSeen' = (passSeen \/ v[1] = ESSENTIAL_AND_VALID)
              /\ formatRound' =
                    IF formatRound = -1 /\ v[1] \notin StepAnnotation
                    THEN i ELSE formatRound
              /\ IF StepSuggestion(v[1])
                 THEN /\ fut' = [fut EXCEPT
                                   ![k] = [st |-> "done", score |-> v[2]]]
                      /\ stack_by_thread' = entered
                 ELSE /\ stack_by_thread' = stack_by_thread \cup {bypass}
                      /\ IF bypass
                         THEN fut' = [fut EXCEPT
                                        ![k] = [st |-> "done", score |-> v[2]]]
                         ELSE fut' = [fut EXCEPT ![k].st = "raised_suggestion"]
              /\ UNCHANGED backendRound
    /\ UNCHANGED << understandings, requestVars, pureVars, cancel_next >>
    /\ UNCHANGED << verifierVars, pc, i, current_error,
                    current_error_msg, bypass_suggest, exc, exc_msg, error,
                    error_msg, rationale, steps, nxt, chosen_steps, response,
                    objective_annotation, final_passed, result, calls,
                    fanouts, assertSeen >>

\* what list(...) appends for the k-th future
ResultOf(k) == << steps[k], fut[k].score >>

\* results taken as the futures complete instead of in submission order
AwaitedAsCompleted ==
    LET taken == { k \in Indices :
                     \E j \in 1..Len(chosen_steps) : chosen_steps[j][1] = steps[k] }
        ready == { k \in Indices \ taken : Finished(k) }
    IN  IF ready = {} THEN nxt ELSE CHOOSE k \in ready : \A j \in ready : k <= j

\* the future whose result() the iteration is blocked on: submission order
Awaited == nxt

\* list(executor.map(...)): results are taken in submission order; the first
\* future that raised ends the iteration, whose clean-up then cancels the
\* futures it has not yet taken
IterateResults ==
    /\ pc = "map"
    /\ IF nxt > Len(steps)
       THEN /\ pc' = "shutdown"
            /\ UNCHANGED << nxt, chosen_steps, exc, exc_msg, cancel_next >>
       ELSE /\ Finished(Awaited)
            /\ IF fut[Awaited].st = "done"
               THEN /\ chosen_steps' = Append(chosen_steps, ResultOf(Awaited))
                    /\ nxt' = nxt + 1
                    /\ UNCHANGED << pc, exc, exc_msg, cancel_next >>
               ELSE /\ exc' = IF fut[Awaited].st = "raised_suggestion"
                              THEN SuggestionError ELSE BackendError
                    /\ exc_msg' = IF fut[Awaited].st = "raised_suggestion"
                                  THEN StepMsg ELSE NoMsg
                    /\ cancel_next' = Len(steps)
                    /\ pc' = "cancel"
                    /\ UNCHANGED << nxt, chosen_steps >>
    /\ UNCHANGED << understandings, requestVars, pureVars >>
    /\ UNCHANGED << verifierVars, stack_by_thread, i, current_error,
                    current_error_msg, bypass_suggest, error, error_msg,
                    rationale, steps, fut, response, objective_annotation,
                    final_passed, result, calls, produced, fanouts, passSeen,
                    assertSeen, backendRound, formatRound >>

\* future.cancel(): only a future that is still PENDING becomes cancelled; the
\* thread that had taken its work item drops it
Cancelled(f, k) ==
    IF f[k].st \in {"pending", "taken"}
    THEN [f EXCEPT ![k].st = "cancelled"] ELSE f

\* finally: for future in fs: future.cancel(), fs being the reversed list of
\* the futures not yet taken: one cancel() at a time, the last submitted first
CancelRest ==
    /\ pc = "cancel"
    /\ IF cancel_next > nxt
       THEN /\ fut' = Cancelled(fut, cancel_next)
            /\ cancel_next' = cancel_next - 1
            /\ UNCHANGED pc
       ELSE /\ pc' = "shutdown"
            /\ cancel_next' = 0
            /\ UNCHANGED fut
    /\ UNCHANGED << understandings, requestVars, pureVars >>
    /\ UNCHANGED << verifierVars, stack_by_thread, i, current_error,
                    current_error_msg, bypass_suggest, exc, exc_msg, error,
                    error_msg, rationale, steps, nxt, chosen_steps, response,
                    objective_annotation, final_passed, result, calls,
                    produced, fanouts, passSeen, assertSeen, backendRound,
                    formatRound >>

\* shutdown(wait=False): the with block is left while work items still run
PoolNotJoined == TRUE

\* shutdown(wait=True) returns once every pool thread has ended
PoolJoined == Busy = {}

\* leaving `with ThreadPoolExecutor(...)`, then `raise e from e` or line 324
ExecutorShutdown ==
    /\ pc = "shutdown"
    /\ PoolJoined
    /\ pc' = IF exc = NONE THEN "respond" ELSE "raised"
    /\ UNCHANGED << understandings, requestVars, pureVars, cancel_next >>
    /\ UNCHANGED << verifierVars, stack_by_thread, handlerVars, exc, exc_msg,
                    error, error_msg, roundVars, result, historyVars >>

\* response = self.conversational(...)
Respond ==
    /\ pc = "respond"
    /\ \/ /\ response' = TRUE
          /\ pc' = "objverify"
          /\ UNCHANGED << exc, exc_msg, backendRound >>
       \/ /\ pc' = "raised"
          /\ RaiseBackend
          /\ UNCHANGED response
    /\ UNCHANGED << understandings, requestVars, pureVars, cancel_next >>
    /\ UNCHANGED << verifierVars, stack_by_thread, i, current_error,
                    current_error_msg, bypass_suggest, error, error_msg,
                    rationale, steps, fut, nxt, chosen_steps,
                    objective_annotation, final_passed, result, calls,
                    produced, fanouts, passSeen, assertSeen, formatRound >>

\* objective_annotation = self.objective_verifier.verify_step(...)
ObjectiveVerify ==
    /\ pc = "objverify"
    /\ \/ /\ \E v \in verify_step(objective_verifier) :
               /\ objective_annotation' = v
               /\ passSeen' = (passSeen \/ v[1] = ESSENTIAL_AND_VALID)
               /\ formatRound' = IF formatRound = -1 /\ v[1] \notin StepAnnotation
                                 THEN i ELSE formatRound
          /\ pc' = "final"
          /\ UNCHANGED << exc, exc_msg, backendRound >>
       \/ /\ pc' = "raised"
          /\ RaiseBackend
          /\ UNCHANGED << objective_annotation, passSeen, formatRound >>
    /\ UNCHANGED << understandings, requestVars, pureVars, cancel_next >>
    /\ UNCHANGED << verifierVars, stack_by_thread, i, current_error,
                    current_error_msg, bypass_suggest, error, error_msg,
                    rationale, steps, fut, nxt, chosen_steps, response,
                    final_passed, result, calls, produced, fanouts,
                    assertSeen >>

\* the final dspy.Suggest, then `return chosen_steps, response`
FinalSuggest ==
    /\ pc = "final"
    /\ LET passed == FinalSuggestion(objective_annotation) IN
         /\ final_passed' = IF passed THEN "passed" ELSE "failed"
         /\ IF passed \/ bypass_suggest
            THEN /\ pc' = "returned"
                 /\ result' = << chosen_steps, response >>
                 /\ UNCHANGED << exc, exc_msg >>
            ELSE /\ pc' = "raised"
                 /\ exc' = SuggestionError
                 /\ exc_msg' = FinalMsg
                 /\ UNCHANGED result
    /\ UNCHANGED << understandings, requestVars, pureVars, cancel_next >>
    /\ UNCHANGED << verifierVars, stack_by_thread, i, current_error,
                    current_error_msg, bypass_suggest, error, error_msg,
                    rationale, steps, fut, nxt, chosen_steps, response,
                    objective_annotation, calls, produced, fanouts, passSeen,
                    assertSeen, backendRound, formatRound >>

Terminal == pc \in {"returned", "failed"}

Next ==
    \/ HandlerAttempt
    \/ HandlerCatch
    \/ Understand
    \/ GenerateRationale
    \/ SegmentAndAssert
    \/ Submit
    \/ \E k \in Indices : WorkerTake(k)
    \/ \E k \in Indices : WorkerStart(k)
    \/ \E k \in Indices : WorkerFinish(k)
    \/ IterateResults
    \/ CancelRest
    \/ ExecutorShutdown
    \/ Respond
    \/ ObjectiveVerify
    \/ FinalSuggest

Spec == Init /\ [][Next]_vars

\* VerifiedQA(step_verifier), objective_verifier left at None, or given the
\* step verifier itself as `chat` does: the step verifier is the objective
\* verifier
InitSameVerifier ==
    /\ Init
    /\ objective_verifier = step_verifier

\* every thread that can take a step eventually takes one
FairSpec == InitSameVerifier /\ [][Next]_vars /\ WF_vars(Next)

(***************************************************************************)
(* Several requests: `chat` invoked again after a request has ended.       *)
(***************************************************************************)
\* the attempt index of the request that has just ended, kept
CarriedCounter == i

\* backtrack_handler's `for i in range(max_backtracks + 1)` starts at 0 in
\* every call of the wrapped forward
FreshCounter == 0

\* the next request of the same process: a new VerifiedQA wrapped in a new
\* handler, and agent(message) called.  The handler's locals start anew and
\* the main thread has left the bypass_suggest context of the request
\* before; dspy.settings is one object per process, so the settings stored
\* under the pool-thread ids stay as they are.
NextRequest ==
    /\ Terminal
    /\ requests < MaxRequests
    /\ requests' = requests + 1
    /\ exhausted_before' = (exhausted_before \/ LastAttempt(i))
    /\ step_verifier' = BERT_CLASSIFIER
    /\ objective_verifier' = BERT_CLASSIFIER
    /\ stack_by_thread' = stack_by_thread
    /\ pc' = "handler"
    /\ i' = FreshCounter
    /\ current_error' = NONE
    /\ current_error_msg' = NoMsg
    /\ bypass_suggest' = FALSE
    /\ exc' = NONE
    /\ exc_msg' = NoMsg
    /\ error' = NONE
    /\ error_msg' = NoMsg
    /\ rationale' = << >>
    /\ steps' = << >>
    /\ fut' = << >>
    /\ nxt' = 1
    /\ chosen_steps' = << >>
    /\ response' = FALSE
    /\ objective_annotation' = << >>
    /\ final_passed' = NONE
    /\ result' = << >>
    /\ calls' = << >>
    /\ produced' = << >>
    /\ fanouts' = 0
    /\ passSeen' = FALSE
    /\ assertSeen' = FALSE
    /\ backendRound' = -1
    /\ formatRound' = -1
    /\ understandings' = 0
    /\ cancel_next' = 0
    /\ UNCHANGED pureVars

NextRequests ==
    \/ Next
    \/ NextRequest

\* cappy_verifier = BertClassifierVerifier(...);
\* VerifiedQA(step_verifier=cappy_verifier, objective_verifier=cappy_verifier)
InitChat ==
    /\ Init
    /\ step_verifier = BERT_CLASSIFIER
    /\ objective_verifier = BERT_CLASSIFIER

RequestsSpec == InitChat /\ [][NextRequests]_vars

(***************************************************************************)
(* rationale_to_steps and BertClassifierVerifier.verify_step applied on    *)
(* their own, to every argument of a bounded set.                          *)
(***************************************************************************)
\* characters of a rationale: a lower-case letter, an upper-case letter, the
\* two sentence ends the pattern knows, the space, and the tab, a whitespace
\* character that str.count(" ") does not count
Chars == {"a", "A", ".", "?", " ", "\t"}

\* every text of at most MaxLen characters
Texts == UNION { [1..n -> Chars] : n \in 0..MaxLen }

\* the model's score and the verifier's threshold, in tenths, from
\* ScoreSpread below the default threshold to ScoreSpread above it
ClassifierInputs ==
    [score : (threshold - ScoreSpread)..(threshold + ScoreSpread),
     threshold : (threshold - 1)..(threshold + 1)]

mainVars ==
    << verifierVars, stack_by_thread, handlerVars,
       exc, exc_msg, error, error_msg, roundVars, result,
       historyVars, understandings, requestVars, cancel_next >>

InitPure ==
    /\ \/ pc = "verify_step" /\ input \in ClassifierInputs
       \/ pc = "rationale_to_steps" /\ input \in Texts
    /\ output = << >>
    /\ reapplied = << >>
    /\ step_verifier = BERT_CLASSIFIER
    /\ objective_verifier = BERT_CLASSIFIER
    /\ stack_by_thread = {}
    /\ i = 0
    /\ current_error = NONE
    /\ current_error_msg = NoMsg
    /\ bypass_suggest = FALSE
    /\ exc = NONE
    /\ exc_msg = NoMsg
    /\ error = NONE
    /\ error_msg = NoMsg
    /\ rationale = << >>
    /\ steps = << >>
    /\ fut = << >>
    /\ nxt = 1
    /\ chosen_steps = << >>
    /\ response = FALSE
    /\ objective_annotation = << >>
    /\ final_passed = NONE
    /\ result = << >>
    /\ calls = << >>
    /\ produced = << >>
    /\ fanouts = 0
    /\ passSeen = FALSE
    /\ assertSeen = FALSE
    /\ backendRound = -1
    /\ formatRound = -1
    /\ understandings = 0
    /\ requests = 1
    /\ exhausted_before = FALSE
    /\ cancel_next = 0

\* BertClassifierVerifier.verify_step: the annotation by thresholding,
\* returned together with the model's score
CallVerifyStep ==
    /\ pc = "verify_step"
    /\ output' = << Thresholding(input.score, input.threshold), input.score >>
    /\ pc' = "verified"
    /\ UNCHANGED << mainVars, input, reapplied >>

\* rationale_to_steps(text)
CallRationaleToSteps ==
    /\ pc = "rationale_to_steps"
    /\ output' = rationale_to_steps(input)
    /\ pc' = "segmented"
    /\ UNCHANGED << mainVars, input, reapplied >>

\* rationale_to_steps(step) for every step just returned
Resegment ==
    /\ pc = "segmented"
    /\ reapplied' = [k \in DOMAIN output |-> rationale_to_steps(output[k])]
    /\ pc' = "resegmented"
    /\ UNCHANGED << mainVars, input, output >>

NextPure ==
    \/ CallVerifyStep
    \/ CallRationaleToSteps
    \/ Resegment

PureSpec == InitPure /\ [][NextPure]_vars

TypeOK ==
    /\ i \in 0..max_backtracks
    /\ pc \in {"handler", "understand", "task", "segment", "submit", "map",
               "cancel", "shutdown", "respond", "objverify", "final", "raised",
               "returned", "failed"}


(***************************************************************************)
(* Properties                                                              *)
(***************************************************************************)
\* the verify_step call of step k returned EssentialAndValid
StepValid(k) == produced[k] # << >> /\ produced[k][1] = ESSENTIAL_AND_VALID

\* a request in which every verify_step call returned a soft-failing
\* annotation, no Assert failed and no external call raised, has ended
AlwaysSoftFailingEnded ==
    Terminal /\ ~ passSeen /\ ~ assertSeen /\ backendRound = -1 /\ fanouts > 0

\* C1 as stated: with a verifier that never returns EssentialAndValid the
\* request makes max_backtracks + 1 verification attempts and then ends in a
\* terminal suggestion error, never in a returned result.
C1_AlwaysTerminalFailure ==
    AlwaysSoftFailingEnded =>
        /\ fanouts = max_backtracks + 1
        /\ pc = "failed"
        /\ error = SuggestionError

\* C1 amended: with a verifier that never returns EssentialAndValid the
\* request makes exactly max_backtracks + 1 verification attempts; the first
\* max_backtracks of them end in a backtrack, and the last one ends either in
\* a terminal suggestion error or, its suggestions being bypassed, in a
\* returned (steps, response) result.
C1_BacktrackBound ==
    AlwaysSoftFailingEnded =>
        /\ fanouts = max_backtracks + 1
        /\ i = max_backtracks
        /\ \/ pc = "failed" /\ error = SuggestionError /\ result = << >>
           \/ pc = "returned" /\ error = NONE

C1_Witness ==
    AlwaysSoftFailingEnded /\ pc = "failed" /\ error = SuggestionError

\* C2: the backtracks consumed never exceed max_backtracks, no work item of an
\* attempt is still running once the main thread has left the fan-out (so at
\* most one attempt is in progress), and every request eventually reaches a
\* terminal state.
C2_Termination ==
    /\ [](i <= max_backtracks)
    /\ [](pc \notin PoolActive => Busy = {})
    /\ <>Terminal

C2_Witness == Terminal /\ i = max_backtracks /\ fanouts = max_backtracks + 1

\* C3: when the rationale segments into fewer than 3 steps the attempt never
\* gets past the Assert (it leaves forward with the assertion error, never
\* with a suggestion error) and nothing is submitted to the pool: no future
\* exists and verify_step is never called.
C3_FailFast ==
    Len(rationale_to_steps(rationale)) < 3 =>
        /\ fut = << >>
        /\ calls = << >>
        /\ pc \notin {"submit", "map", "cancel", "shutdown", "respond",
                      "objverify", "final", "returned"}
        /\ exc # SuggestionError

C3_Witness ==
    pc = "raised" /\ exc = AssertionError /\ Len(steps) = 2 /\ fut = << >>

\* C4 as stated: a failed step-count Assert sends the request to Failed
\* directly, consuming no backtrack.
C4_AssertTerminalWithoutRetry ==
    [][ (pc = "raised" /\ exc = AssertionError) =>
            (pc' = "failed" /\ i' = i) ]_vars

\* C4 amended: a failed step-count Assert is retried like a soft failure.
\* Raised on an attempt before the last it consumes a backtrack and forward
\* is run again from the start; it leaves for the caller only when raised on
\* the last attempt, or when the last attempt is due and the first error of
\* the request was the assertion error (forward is then not run again).
C4_AssertRetried ==
    [][ /\ (pc = "raised" /\ exc = AssertionError) =>
              IF i < max_backtracks
              THEN pc' = "handler" /\ i' = i + 1 /\ error' = NONE
              ELSE pc' = "failed" /\ i' = i /\ error' = AssertionError
        /\ (pc = "handler" /\ i = max_backtracks
                /\ current_error = AssertionError) =>
              (pc' = "failed" /\ error' = AssertionError /\ i' = i)
        /\ (pc = "handler" /\ i < max_backtracks) => pc' = "understand" ]_vars

C4_Witness ==
    i = 1 /\ current_error = AssertionError /\ assertSeen /\ pc = "segment"

\* C5: the results are collected in submission order whatever order the
\* work items finish in: the k-th collected pair carries the k-th step and the
\* score verify_step returned for that step, every collected step was verified
\* exactly once, and when the fan-out has succeeded there is one pair per step.
C5_OrderPreserved ==
    /\ Len(chosen_steps) <= Len(steps)
    /\ \A k \in 1..Len(chosen_steps) :
          /\ produced[k] # << >>
          /\ chosen_steps[k] = << steps[k], produced[k][2] >>
          /\ calls[k] = 1
    /\ pc \in {"respond", "objverify", "final", "returned"} =>
          /\ Len(chosen_steps) = Len(steps)
          /\ \A k \in Indices : calls[k] = 1
    /\ pc = "returned" => result[1] = chosen_steps

\* the third step has finished while the second is still being verified
C5_Witness ==
    /\ pc = "map"
    /\ Len(chosen_steps) = 1
    /\ fut[2].st = "running"
    /\ fut[3].st = "done"
    /\ fut[3].score # chosen_steps[1][2]

\* C6 as stated: when a step's soft-constraint failure leaves the fan-out, no
\* verification of the round has been cancelled and every step handed to the
\* pool has been verified to completion.
C6_NoSiblingCancelled ==
    (exc = SuggestionError /\ fut # << >>) =>
        /\ \A k \in Indices : fut[k].st # "cancelled"
        /\ pc = "raised" => \A k \in Indices : calls[k] = 1 /\ Finished(k)

\* C7 as stated: the final Suggest passes exactly when the objective-level
\* annotation is EssentialAndValid.
C7_FinalSuggestionOnAnnotation ==
    final_passed # NONE =>
        (final_passed = "passed" <=> objective_annotation[1] = ESSENTIAL_AND_VALID)

\* C8: once every step of a round with at least 3 steps has been annotated
\* EssentialAndValid, the main thread only collects the results, joins the
\* pool and moves on to response generation: nothing is raised and no
\* backtrack is consumed.
C8_HappyPath ==
    [][ (pc \in {"map", "shutdown"} /\ Len(steps) >= 3
            /\ \A k \in Indices : StepValid(k)) =>
            /\ pc' \in {"map", "shutdown", "respond"}
            /\ exc' = NONE
            /\ i' = i
            /\ fanouts' = fanouts ]_vars

C8_Witness ==
    /\ pc = "respond"
    /\ i = 0
    /\ fanouts = 1
    /\ Len(steps) >= 3
    /\ \A k \in Indices : StepValid(k)

\* the future the iteration stopped at carries an annotation outside the
\* closed set
FormatErrorSurfaced ==
    /\ pc \in {"cancel", "shutdown", "raised"}
    /\ nxt \in Indices
    /\ produced[nxt] # << >>
    /\ produced[nxt][1] \notin StepAnnotation

\* C9 as stated: an annotation outside the closed set is not a soft failure;
\* it consumes no backtrack and the request never enters another attempt.
C9_FormatErrorTerminal ==
    /\ FormatErrorSurfaced => exc # SuggestionError
    /\ formatRound # -1 => i = formatRound

\* C10 as stated: once an external call has raised, the request consumes no
\* further backtrack, returns no result and ends with that error.
C10_BackendErrorTerminal ==
    backendRound # -1 =>
        /\ i = backendRound
        /\ pc # "returned"
        /\ (pc = "failed" => error = BackendError)

\* every constraint of the round has passed: the Assert, the Suggest of every
\* step and the final Suggest
AllConstraintsPassed ==
    /\ HardConstraint(steps)
    /\ Indices = 1..Len(steps)
    /\ \A k \in Indices : produced[k] # << >> /\ StepSuggestion(produced[k][1])
    /\ final_passed = "passed"

\* the round that has just ended failed at the final Suggest
ObjectiveLevelFailure == final_passed = "failed"

\* the round that has just ended failed at the Suggest of a step
StepLevelFailure == \E k \in Indices : fut[k].st = "raised_suggestion"

\* the request ended with the failure of a constraint
ConstraintFailureSurfaced ==
    pc = "failed" /\ error \in {SuggestionError, AssertionError}

\* C11 as stated: a failed request delivers nothing, a result is delivered
\* only by a round in which the hard constraint, every per-step soft
\* constraint and the final soft constraint passed, and the constraint
\* failure that leaves a failed request is the one that failed first in the
\* request, with its message.
C11_ResultOnlyFromPassingRound ==
    /\ pc = "failed" => result = << >>
    /\ result # << >> => AllConstraintsPassed
    /\ ConstraintFailureSurfaced =>
          /\ error = current_error
          /\ error_msg = current_error_msg

\* C11: a failed request delivers neither steps nor a response.  A result
\* is delivered only by the attempt with index max_backtracks, which runs
\* with suggestions bypassed: its hard constraint passed, its final soft
\* constraint failed and was logged, and the result holds one entry per step
\* together with the response.  A constraint failure leaves a request only
\* at index max_backtracks, with the message of its constraint: when the
\* first failure of the request was the hard constraint it is that failure,
\* raised again in place of the last attempt; otherwise it is the failure of
\* the last attempt, of the hard constraint or of a step's soft constraint,
\* whichever constraint failed first.
C11_NoPartialResults ==
    /\ pc = "failed" => result = << >> /\ error # NONE
    /\ result # << >> =>
          /\ pc = "returned"
          /\ error = NONE
          /\ i = max_backtracks
          /\ bypass_suggest
          /\ HardConstraint(steps)
          /\ final_passed = "failed"
          /\ result = << chosen_steps, response >>
          /\ Len(chosen_steps) = Len(steps)
          /\ response
    /\ ConstraintFailureSurfaced =>
          /\ i = max_backtracks
          /\ current_error \in {SuggestionError, AssertionError}
          /\ IF current_error = AssertionError
             THEN /\ error = AssertionError
                  /\ error_msg = AssertMsg
                  /\ current_error_msg = AssertMsg
                  /\ steps = << >>
             ELSE \/ /\ error = AssertionError
                     /\ error_msg = AssertMsg
                     /\ ~ HardConstraint(steps)
                  \/ /\ error = SuggestionError
                     /\ error_msg = StepMsg
                     /\ StepLevelFailure

\* a request failed after its last round had collected a step; the failure
\* that surfaced is the step's, the first failure was the final Suggest's
C11_Witness ==
    /\ pc = "failed"
    /\ error = SuggestionError
    /\ error_msg = StepMsg
    /\ current_error_msg = FinalMsg
    /\ chosen_steps # << >>
    /\ result = << >>

\* a result delivered although soft constraints of its round had failed
C11_WitnessBypassed ==
    /\ pc = "returned"
    /\ result # << >>
    /\ final_passed = "failed"
    /\ \E k \in Indices : ~ StepSuggestion(produced[k][1])

\* the first failure, of the hard constraint, raised again by the handler
C11_WitnessFirstFailure ==
    /\ pc = "failed"
    /\ error = AssertionError
    /\ current_error = AssertionError
    /\ fanouts > 0

(***************************************************************************)
(* The two functions on their own (PureSpec)                               *)
(***************************************************************************)
\* C12: for every score and threshold the classifier strategy annotates
\* DoesNotSeemRight when score <= threshold, the equal case included, and
\* EssentialAndValid when score > threshold, never one of the other four
\* values, and returns the model's score unchanged.
C12_Thresholding ==
    pc = "verified" =>
        /\ output[2] = input.score
        /\ output[1] \in {DOES_NOT_SEEM_RIGHT, ESSENTIAL_AND_VALID}
        /\ input.score <= input.threshold <=> output[1] = DOES_NOT_SEEM_RIGHT
        /\ input.score > input.threshold <=> output[1] = ESSENTIAL_AND_VALID

\* a score exactly at the threshold has been classified
C12_Witness ==
    /\ pc = "verified"
    /\ input.score = input.threshold
    /\ output = << DOES_NOT_SEEM_RIGHT, input.score >>

\* C13: applying the segmenter to a step it returned gives exactly that
\* step back, and a text that is a single sentence with fewer than
\* max_spaces spaces (the threshold below which a sentence is dropped) gives
\* the empty list.
C13_Idempotent ==
    /\ pc = "resegmented" =>
          \A k \in DOMAIN output : reapplied[k] = << output[k] >>
    /\ ( /\ pc \in {"segmented", "resegmented"}
         /\ Len(re_split(input)) = 1
         /\ CountSpaces(input) < max_spaces ) => output = << >>

\* a text with a sentence end in it of which one step was kept and re-split
C13_Witness ==
    /\ pc = "resegmented"
    /\ Len(re_split(input)) > 1
    /\ Len(output) >= 1
    /\ \E p \in 1..Len(output[1]) : output[1][p] \in {".", "?"}

\* a single short sentence went through the segmenter
C13_WitnessShort ==
    /\ pc = "segmented"
    /\ input = << "a", " ", "a", "." >>
    /\ output = << >>

\* the text s occurs in r at position p
OccursAt(r, s, p) ==
    /\ p + Len(s) - 1 <= Len(r)
    /\ SubSeq(r, p, p + Len(s) - 1) = s

\* the steps occur in the text one after the other, without overlap
InTextOrder(r, ss) ==
    \E f \in [1..Len(ss) -> 1..Len(r)] :
        /\ \A k \in 1..Len(ss) : OccursAt(r, ss[k], f[k])
        /\ \A k \in 1..(Len(ss) - 1) : f[k] + Len(ss[k]) < f[k + 1]

\* C14 as stated: every returned step is non-empty and has at least three
\* words, every fragment with fewer than three words is dropped, and the
\* steps keep the order they have in the text.
C14_AtLeastThreeWords ==
    pc \in {"segmented", "resegmented"} =>
        /\ \A k \in DOMAIN output : output[k] # << >> /\ WordCount(output[k]) >= 3
        /\ \A j \in DOMAIN re_split(input) :
              WordCount(re_split(input)[j]) < 3 =>
                  \A k \in DOMAIN output : output[k] # re_split(input)[j]
        /\ InTextOrder(input, output)

\* C14: every returned step is non-empty and holds at least max_spaces
\* space characters, every fragment with fewer space characters is dropped,
\* however many words it has, and the steps keep the order they have in the
\* text.
C14_Filtering ==
    pc \in {"segmented", "resegmented"} =>
        /\ \A k \in DOMAIN output :
              output[k] # << >> /\ CountSpaces(output[k]) >= max_spaces
        /\ \A j \in DOMAIN re_split(input) :
              CountSpaces(re_split(input)[j]) < max_spaces =>
                  \A k \in DOMAIN output : output[k] # re_split(input)[j]
        /\ InTextOrder(input, output)

\* a text of which one fragment was dropped and a three-word fragment kept
C14_Witness ==
    /\ pc = "segmented"
    /\ Len(re_split(input)) = 2
    /\ Len(output) = 1
    /\ WordCount(output[1]) >= 3

\* three words a tab apart were dropped
C14_WitnessTab ==
    /\ pc = "segmented"
    /\ WordCount(input) >= 3
    /\ CountSpaces(input) = 0
    /\ output = << >>

\* two steps were returned
C14_WitnessOrder ==
    /\ pc = "segmented"
    /\ Len(output) = 2
    /\ output[1] # output[2]

(***************************************************************************)
(* What a backtrack runs again                                             *)
(***************************************************************************)
\* the attempt with index i is inside forward, past its first statement
InForward ==
    pc \in {"task", "segment", "submit", "map", "cancel", "shutdown", "respond",
            "objverify", "final", "raised", "returned"}

\* C15 as stated: the message-understanding stage runs exactly once in a
\* request, however many backtracks the request consumes.
C15_UnderstoodOnce ==
    /\ understandings <= 1
    /\ InForward => understandings = 1

\* the handler has raised the first failure again in place of the last
\* attempt: forward is not called
GaveUp == pc = "failed" /\ LastAttempt(i) /\ current_error = AssertionError

\* C15: the message-understanding stage runs once in every attempt that
\* calls forward, the retries included: an attempt with index i that has
\* entered forward is the (i + 1)-th execution of the stage, at most
\* max_backtracks + 1 in all.  The one attempt that does not call forward is
\* the last one of a request whose first failure was the hard constraint: the
\* request then ends with max_backtracks executions of the stage.
C15_UnderstoodEveryAttempt ==
    /\ understandings <= max_backtracks + 1
    /\ pc \in {"handler", "understand"} => understandings = i
    /\ InForward => understandings = i + 1
    /\ pc = "failed" => understandings = IF GaveUp THEN i ELSE i + 1

\* a request that returned after two backtracks ran the stage three times
C15_Witness ==
    /\ pc = "returned"
    /\ i = max_backtracks
    /\ understandings = max_backtracks + 1

\* a request that ended without its last attempt ran the stage twice
C15_WitnessGaveUp ==
    /\ GaveUp
    /\ understandings = max_backtracks

\* C16 as stated: the retry after a per-step soft failure generates the
\* rationale again and verifies its steps again, while the retry after an
\* objective-level soft failure resumes at response generation and keeps the
\* rationale, its steps and their verification results.
C16_RetryFailedStageOnly ==
    [][ (pc = "handler" /\ pc' \notin {"handler", "failed"}) =>
            /\ StepLevelFailure => rationale' = << >> /\ fut' = << >>
            /\ ObjectiveLevelFailure =>
                  /\ pc' = "respond"
                  /\ rationale' = rationale
                  /\ steps' = steps
                  /\ fut' = fut
                  /\ chosen_steps' = chosen_steps ]_vars

\* the stages that can follow a stage
NextStages(stage) ==
    CASE stage = "handler" -> {"understand", "failed"}
      [] stage = "understand" -> {"task", "raised"}
      [] stage = "task" -> {"segment", "raised"}
      [] stage = "segment" -> {"submit", "raised"}
      [] stage = "submit" -> {"map"}
      [] stage = "map" -> {"cancel", "shutdown"}
      [] stage = "cancel" -> {"shutdown"}
      [] stage = "shutdown" -> {"respond", "raised"}
      [] stage = "respond" -> {"objverify", "raised"}
      [] stage = "objverify" -> {"final", "raised"}
      [] stage = "final" -> {"returned", "raised"}
      [] stage = "raised" -> {"handler", "failed"}
      [] OTHER -> {}

\* C16: a soft failure with attempts left, per-step or objective-level
\* alike, consumes one backtrack.  The retry runs the whole pipeline again
\* from message understanding with nothing kept of the failed round:
\* rationale generation, segmentation, the hard assert, step verification,
\* response generation and objective verification, in this order.  There is
\* no retry when the backtrack consumed was the last one and the first
\* failure of the request was the hard constraint: the handler raises that
\* failure again and no stage runs.
C16_RetryWholePipeline ==
    [][ /\ (pc = "raised" /\ exc = SuggestionError /\ i < max_backtracks) =>
              pc' = "handler" /\ i' = i + 1
        /\ pc = "handler" =>
              IF i = max_backtracks /\ current_error = AssertionError
              THEN /\ pc' = "failed"
                   /\ error' = AssertionError
                   /\ understandings' = understandings
                   /\ fanouts' = fanouts
              ELSE /\ pc' = "understand"
                   /\ rationale' = << >>
                   /\ steps' = << >>
                   /\ fut' = << >>
                   /\ chosen_steps' = << >>
                   /\ response' = FALSE
                   /\ objective_annotation' = << >>
        /\ pc' # pc => pc' \in NextStages(pc) ]_vars

\* an objective-level failure has consumed a backtrack and the retry is due
C16_Witness ==
    /\ pc = "handler"
    /\ i = 1
    /\ ObjectiveLevelFailure
    /\ Len(chosen_steps) = Len(steps)
    /\ response

\* a per-step failure has consumed a backtrack and the retry is due
C16_WitnessStep ==
    /\ pc = "handler"
    /\ i = 1
    /\ StepLevelFailure

\* a per-step failure has consumed the last backtrack of a request whose
\* first failure was the hard constraint
C16_WitnessNoRetry ==
    /\ pc = "handler"
    /\ i = max_backtracks
    /\ current_error = AssertionError
    /\ StepLevelFailure

(***************************************************************************)
(* Several requests (RequestsSpec)                                         *)
(***************************************************************************)
\* a request has ended and the next one starts
RequestBoundary == requests' # requests

\* the soft constraint of step k is evaluated in this step and fails
StepFails(k) ==
    /\ k \in DOMAIN produced
    /\ k \in DOMAIN produced'
    /\ k \in DOMAIN fut'
    /\ produced[k] = << >>
    /\ produced'[k] # << >>
    /\ ~ StepSuggestion(produced'[k][1])

C18_WitnessStaleThread ==
    /\ requests > 1
    /\ i = 0
    /\ ~ bypass_suggest
    /\ \E k \in Indices :
          /\ fut[k].st = "done"
          /\ produced[k] # << >>
          /\ ~ StepSuggestion(produced[k][1])

(***************************************************************************)
(* The fan-out and what follows it                                         *)
(***************************************************************************)
\* verify_step has returned a soft-failing annotation for step k
SoftFailing(k) == produced[k] # << >> /\ ~ StepSuggestion(produced[k][1])

\* C19 as stated: the failure that leaves the fan-out is the one of the
\* lowest-indexed step whose soft constraint failed, and what a soft-failing
\* step does to its round does not depend on the thread that ran it: the
\* soft-failing steps of one round all raise or all pass.
C19_LowestFailingStepLeaves ==
    /\ (pc \in {"cancel", "shutdown"} /\ exc = SuggestionError) =>
          /\ SoftFailing(nxt)
          /\ \A k \in Indices : k < nxt => ~ SoftFailing(k)
    /\ \A k, j \in Indices :
          (SoftFailing(k) /\ SoftFailing(j) /\ Finished(k) /\ Finished(j)) =>
              fut[k].st = fut[j].st

\* C20 as stated: response generation and objective verification start only
\* after every step verification of the round has finished and every
\* per-step soft constraint has passed, and no worker is running when
\* response generation begins or when the round's failure is raised.
C20_AfterEveryStepPassed ==
    /\ pc \in {"respond", "objverify", "final", "returned"} =>
          /\ Indices = 1..Len(steps)
          /\ \A k \in Indices : fut[k].st = "done" /\ ~ SoftFailing(k)
    /\ pc \in {"respond", "raised"} => Busy = {}

\* C20: response generation and objective verification start only after
\* every step of the round has been verified, once, and its soft constraint
\* has passed or, in the attempt with index max_backtracks, been bypassed;
\* no worker is running when response generation begins or when the
\* round's failure is raised, nor at any time after that.
C20_StageOrdering ==
    /\ (pc \in {"respond", "objverify", "final", "returned"} \/ response) =>
          /\ Indices = 1..Len(steps)
          /\ Len(chosen_steps) = Len(steps)
          /\ \A k \in Indices :
                /\ fut[k].st = "done"
                /\ calls[k] = 1
                /\ ~ SoftFailing(k) \/ (i = max_backtracks /\ bypass_suggest)
    /\ pc \in {"respond", "objverify", "final", "returned", "raised",
               "handler", "failed"} => Busy = {}
    /\ objective_annotation # << >> => response

\* the response was generated after a round with more steps than workers
C20_Witness ==
    /\ pc = "objverify"
    /\ response
    /\ Len(steps) >= 3
    /\ \A k \in Indices : fut[k].st = "done"

\* a round's failure was raised after the pool had been joined, a sibling
\* verification having run to its end
C20_WitnessRaised ==
    /\ pc = "raised"
    /\ exc = SuggestionError
    /\ \E k \in Indices : k > nxt /\ Finished(k)

====
